---- MODULE Spec2Model ----
(***************************************************************************)
(* Local-first synchronisation of the Placemarker index route.             *)
(*                                                                         *)
(* State: the two IndexedDB stores (selected countries, user settings),    *)
(* the PocketBase records of the signed-in user (country_selections rows   *)
(* and the profile's homeland_alpha3), the auth session, the React state   *)
(* of the Index component and of its CountrySelector child, and the async  *)
(* handlers that are waiting for a PocketBase call to complete.            *)
(*                                                                         *)
(* Granularity: JavaScript runs one continuation at a time.  A step of the *)
(* model is the code between two PocketBase awaits; an IndexedDB call is   *)
(* taken together with the continuation that follows it.  A PocketBase     *)
(* call reads or writes the server in the step in which it completes.      *)
(***************************************************************************)
EXTENDS Naturals, Sequences, FiniteSets, TLC

\* ---------------------------------------------------------------- bounds
MaxEvents == 3         \* user events: sign-in, sign-out and clicks
MaxTasks == 2          \* handlers waiting for a PocketBase call
MaxRows == 2           \* country_selections rows of one code
MaxCalls == 2          \* service calls in the close-up of the service
MaxOps == 3            \* store calls in the close-up of the object store
MaxLiveEvents == 2     \* user events where termination is checked

\* ------------------------------------------------------------- catalogue
None == "none"
CodeOrder == <<"DEU", "FRA">>      \* key order of the object store
Codes == {CodeOrder[i] : i \in 1..Len(CodeOrder)}

VARIABLES
    localStore,         \* keys of the "selected-countries" object store
    localHomeland,      \* homelandCountry of the "user-settings" record
    remoteSel,          \* country_selections rows of the profile, per code
    remoteHomeland,     \* user_profiles.homeland_alpha3
    authValid,          \* pb.authStore.isValid, and useAuth().isAuthenticated
    isInitialized,      \* Index state
    selectedCountries,  \* Index state (string[])
    homelandCountry,    \* Index state
    uiSel,              \* CountrySelector's own selectedCountries
    tasks,              \* handlers suspended on a PocketBase call
    last,               \* history: the step just taken
    prev,               \* history: the last completed reconciliation pass
    nEvents,            \* history: user events so far
    merge,              \* the countryMap of one pass, record by record
    svc,                \* PocketbaseService calls, request by request
    db                  \* the "selected-countries" object store, by record

\* the state of the Index route
appVars == <<localStore, localHomeland, remoteSel, remoteHomeland, authValid,
             isInitialized, selectedCountries, homelandCountry, uiSel, tasks,
             last, prev, nEvents>>

\* the state of the close-ups (the merge, the service, the object store)
auxVars == <<merge, svc, db>>

vars == <<appVars, auxVars>>

\* --------------------------------------------------------------- helpers
Range(s) == {s[i] : i \in 1..Len(s)}

NoDup(s) == \A i, j \in 1..Len(s) : i # j => s[i] # s[j]

Filter(s, c) == SelectSeq(s, LAMBDA x : x # c)

\* store.getAll(): the records in key order
GetSelectedCountries(store) == SelectSeq(CodeOrder, LAMBDA x : x \in store)

Rep(c, n) == [i \in 1..n |-> c]

RECURSIVE Rows(_, _)
Rows(order, bag) ==
    IF order = <<>> THEN <<>>
    ELSE Rep(Head(order), bag[Head(order)]) \o Rows(Tail(order), bag)

\* getFullList({filter: profile}) mapped through alpha3ToCountry
GetUserCountrySelections(bag) == Rows(CodeOrder, bag)

\* countryMap.set(country.alpha3, country) for every element of list
RECURSIVE MapSetAll(_, _)
MapSetAll(keys, list) ==
    IF list = <<>> THEN keys
    ELSE MapSetAll(IF Head(list) \in Range(keys) THEN keys
                   ELSE Append(keys, Head(list)), Tail(list))

\* Array.from(countryMap.values()): local first, then PocketBase
MergedSelections(L, R) == MapSetAll(MapSetAll(<<>>, L), R)

SyncedHomeland_PreferLocal(rh, lh) == IF lh # None THEN lh ELSE rh

\* pocketbaseHomeland || localHomeland
SyncedHomeland(rh, lh) == IF rh # None THEN rh ELSE lh

ExistsInPocketbase_Never(R, c) == FALSE

\* pocketbaseSelections.some(pc => pc.alpha3 === localCountry.alpha3)
ExistsInPocketbase(R, c) == c \in Range(R)

IsHomeland_NoGuard(c) == FALSE

\* homelandCountry?.alpha3 === country.alpha3
IsHomeland(c) == homelandCountry = c

IsCurrentlySelected_Never(sel, c) == FALSE

\* selectedCountries.includes(country.alpha3)
IsCurrentlySelected(sel, c) == c \in Range(sel)

AddCountry_NotAwaited(store, c) == store

\* countryStorage.addCountry: store.put keyed by the country code
AddCountry(store, c) == store \cup {c}

\* countryStorage.removeCountry: store.delete(key)
RemoveCountry(store, c) == store \ {c}

CatchSaveError_Rollback(store, c) == store \ {c}

\* catch of the mirrored saveCountrySelection: console.error, nothing else
CatchSaveError(store, c) == store

\* saveCountrySelection: create a row unless one exists for the code
SaveCountrySelection(bag, c) ==
    IF bag[c] = 0 THEN [bag EXCEPT ![c] = 1] ELSE bag

\* removeCountrySelection: getList(1, 1) and delete that one row
RemoveCountrySelection(bag, c) ==
    IF bag[c] > 0 THEN [bag EXCEPT ![c] = bag[c] - 1] ELSE bag

NoRows == [c \in Codes |-> 0]

RowCodes(bag) == {c \in Codes : bag[c] > 0}

\* ------------------------------------------------------- suspended handlers
\* A free slot.  The fields after pc are the handler's locals and closure;
\* slot, inSel, solo, applied, pushed, homePushed, failed and atStart are
\* history.
Idle == [kind |-> "idle", pc |-> "-", code |-> None, slot |-> 0,
         ok |-> FALSE,          \* the pending call passed isAuthenticated()
         auth |-> FALSE,        \* closure: isAuthenticated
         wasSel |-> FALSE,      \* handleHomelandSelect: isCurrentlySelected
         R |-> <<>>, rh |-> None, L |-> <<>>, lh |-> None,
         merged |-> <<>>, synced |-> None, todo |-> <<>>,
         fetchSelOk |-> FALSE, fetchHomeOk |-> FALSE,
         applied |-> FALSE, pushed |-> {}, homePushed |-> FALSE,
         failed |-> FALSE, solo |-> TRUE, inSel |-> FALSE,
         atStart |-> {},        \* history: the local keys when a pass began
         undone |-> None,       \* history: see LocalOnlyDeselect
         localErr |-> FALSE]    \* history: the handler's store write failed

Slots == 1..MaxTasks

Free == {i \in Slots : tasks[i].kind = "idle"}

FreeSlot == CHOOSE i \in Free : \A j \in Free : i <= j

Quiescent == \A i \in Slots : tasks[i].kind = "idle"

\* another step ran while the handlers other than t were suspended
Touch(ts, t) ==
    [i \in Slots |-> IF i # t /\ ts[i].kind # "idle"
                     THEN [ts[i] EXCEPT !.solo = FALSE] ELSE ts[i]]

NoPrev == [valid |-> FALSE, merged |-> {}, home |-> None]

Event(ev, c, res, t) ==
    [ev |-> ev, code |-> c, ok |-> res, t |-> t,
     prev |-> IF ev = "syncDone" THEN prev ELSE NoPrev]

\* a handler that has just been entered
Entered(kind, pc, c) ==
    [Idle EXCEPT !.kind = kind, !.pc = pc, !.code = c, !.ok = authValid,
                 !.auth = authValid,
                 !.inSel = c \in Range(selectedCountries)]

\* the close-ups are not in use
NoMerge == [pc |-> "-"]

NoSvc == [pc |-> "-"]

NoDb == [pc |-> "-"]

\* ------------------------------------------------------------------- Init
\* A device that has just mounted the route: the React state is empty, the
\* stores hold what earlier sessions (local) and other devices (remote) left.
\* Within one store the homeland is not among the selections.
Init ==
    /\ localStore \in SUBSET Codes
    /\ localHomeland \in (Codes \cup {None}) \ localStore
    /\ remoteSel \in [Codes -> 0..1]
    /\ remoteHomeland \in (Codes \cup {None}) \ RowCodes(remoteSel)
    /\ authValid = FALSE
    /\ isInitialized = FALSE
    /\ selectedCountries = <<>>
    /\ homelandCountry = None
    /\ uiSel = {}
    /\ tasks = [i \in Slots |-> Idle]
    /\ last = [ev |-> "mount", code |-> None, ok |-> TRUE, t |-> Idle,
               prev |-> NoPrev]
    /\ prev = NoPrev
    /\ nEvents = 0
    /\ merge = NoMerge
    /\ svc = NoSvc
    /\ db = NoDb

\* ------------------------------------------------- reconciliation (effect)
RECURSIVE SkipExisting(_, _)
\* the for loop over localSelections up to the next saveCountrySelection call
SkipExisting(todo, R) ==
    IF todo = <<>> THEN <<>>
    ELSE IF ExistsInPocketbase(R, Head(todo)) THEN SkipExisting(Tail(todo), R)
    ELSE todo

\* history: a pass that ran alone, with every PocketBase call answered
Clean(t) ==
    t.solo /\ t.fetchSelOk /\ t.fetchHomeOk /\ ~t.failed /\ t.applied

Summary(t) == [valid |-> Clean(t), merged |-> Range(t.merged), home |-> t.synced]

\* the pass returns (end of the try block, or the outer catch)
SyncReturn(i, t) ==
    /\ tasks' = Touch([tasks EXCEPT ![i] = Idle], i)
    /\ last' = Event("syncDone", None, t.applied, t)
    /\ prev' = Summary(t)

\* the push loop: call saveCountrySelection for the next local-only country
SyncNextPush(i, t) ==
    IF t.todo = <<>> THEN SyncReturn(i, t)
    ELSE LET t1 == [t EXCEPT !.pc = "push", !.code = Head(t.todo),
                             !.ok = authValid,
                             !.pushed = @ \cup {Head(t.todo)}] IN
         /\ tasks' = Touch([tasks EXCEPT ![i] = t1], i)
         /\ last' = Event("syncStep", t1.code, TRUE, t1)
         /\ prev' = prev

\* setHomelandCountry, setInitialCountries, setSelectedCountries, then the loop
SyncApply(i, t) ==
    /\ homelandCountry' = IF t.synced # None THEN t.synced ELSE homelandCountry
    /\ selectedCountries' = t.merged
    /\ uiSel' = Range(t.merged)
    /\ SyncNextPush(i, [t EXCEPT !.applied = TRUE,
                                 !.todo = SkipExisting(t.L, t.R)])

\* history: the code of the deselect that came just before the pass and did
\* not reach PocketBase (made signed out, or its remote delete failed)
LocalOnlyDeselect ==
    IF last.ev = "deselectLocal" \/ (last.ev = "deselectDone" /\ ~last.ok)
    THEN last.code ELSE None

\* the effect body when isAuthenticated && isInitialized: the pass is entered
\* and suspends on getUserCountrySelections
SyncStart(ts) ==
    [ts EXCEPT ![FreeSlot] =
        [Entered("sync", "fetchSel", None) EXCEPT !.slot = FreeSlot,
                                                  !.ok = TRUE, !.auth = TRUE,
                                                  !.atStart = localStore,
                                                  !.undone = LocalOnlyDeselect]]

\* getUserCountrySelections resolves (with [] when it failed)
SyncFetchSel(i) ==
    LET t == tasks[i] IN
    /\ t.kind = "sync" /\ t.pc = "fetchSel"
    /\ \E net \in BOOLEAN :
        LET got == t.ok /\ authValid /\ net
            R == IF got THEN GetUserCountrySelections(remoteSel) ELSE <<>>
            t1 == [t EXCEPT !.pc = "fetchHome", !.R = R, !.fetchSelOk = got,
                            !.ok = authValid]
        IN /\ tasks' = Touch([tasks EXCEPT ![i] = t1], i)
           /\ last' = Event("syncStep", None, got, t1)
    /\ UNCHANGED <<auxVars, localStore, localHomeland, remoteSel, remoteHomeland,
                   authValid, isInitialized, selectedCountries,
                   homelandCountry, uiSel, prev, nEvents>>

\* getHomeland resolves (with null when it failed); the local reads, the merge
\* and the homeland decision follow
SyncFetchHome(i) ==
    LET t == tasks[i] IN
    /\ t.kind = "sync" /\ t.pc = "fetchHome"
    /\ \E net \in BOOLEAN :
        LET got == t.ok /\ authValid /\ net
            rh == IF got THEN remoteHomeland ELSE None
            L == GetSelectedCountries(localStore)
            lh == localHomeland
            t1 == [t EXCEPT !.rh = rh, !.fetchHomeOk = got, !.L = L,
                            !.lh = lh, !.merged = MergedSelections(L, t.R),
                            !.synced = SyncedHomeland(rh, lh)]
            fromRemote == rh # None /\ (lh = None \/ lh # rh)
            toRemote == ~fromRemote /\ lh # None /\ rh = None
            t2 == [t1 EXCEPT !.pc = "homePush", !.ok = authValid,
                             !.homePushed = TRUE]
        IN IF t1.synced # None /\ toRemote
           THEN \* await pocketbaseService.setHomeland(localHomeland)
                /\ tasks' = Touch([tasks EXCEPT ![i] = t2], i)
                /\ last' = Event("syncStep", None, got, t2)
                /\ UNCHANGED <<localHomeland, selectedCountries,
                               homelandCountry, uiSel, prev>>
           ELSE \* await userSettingsStorage.setHomeland(pocketbaseHomeland)
                /\ localHomeland' = IF t1.synced # None /\ fromRemote
                                    THEN rh ELSE localHomeland
                /\ SyncApply(i, t1)
    /\ UNCHANGED <<auxVars, localStore, remoteSel, remoteHomeland, authValid,
                   isInitialized, nEvents>>

\* pocketbaseService.setHomeland(localHomeland) resolves or throws
SyncHomePush(i) ==
    LET t == tasks[i] IN
    /\ t.kind = "sync" /\ t.pc = "homePush"
    /\ \E net \in BOOLEAN :
        LET got == t.ok /\ authValid /\ net IN
        IF got
        THEN /\ remoteHomeland' = t.lh
             /\ SyncApply(i, t)
        ELSE \* thrown to the outer catch
             /\ SyncReturn(i, [t EXCEPT !.failed = TRUE])
             /\ UNCHANGED <<remoteHomeland, selectedCountries,
                            homelandCountry, uiSel>>
    /\ UNCHANGED <<auxVars, localStore, localHomeland, remoteSel, authValid,
                   isInitialized, nEvents>>

AfterPushFailure_Abort(rest) == <<>>

\* catch inside the push loop: console.error, the loop goes on with the rest
AfterPushFailure(rest) == rest

NextInLoop_Same(todo) == todo

\* for (const localCountry of localSelections): the loop moves on
NextInLoop(todo) == Tail(todo)

\* saveCountrySelection resolves or throws (caught inside the loop)
SyncPush(i) ==
    LET t == tasks[i] IN
    /\ t.kind = "sync" /\ t.pc = "push"
    /\ \E net \in BOOLEAN :
        LET got == t.ok /\ authValid /\ net IN
        /\ remoteSel' = IF got THEN SaveCountrySelection(remoteSel, t.code)
                        ELSE remoteSel
        /\ SyncNextPush(i, [t EXCEPT
                !.failed = @ \/ ~got,
                !.todo = SkipExisting(IF got THEN NextInLoop(t.todo)
                                      ELSE AfterPushFailure(NextInLoop(t.todo)),
                                      t.R)])
    /\ UNCHANGED <<auxVars, localStore, localHomeland, remoteHomeland, authValid,
                   isInitialized, selectedCountries, homelandCountry, uiSel, nEvents>>

\* ----------------------------------------------------- session and startup
ShouldSync_AuthOnly(isAuthenticated, initialized) == isAuthenticated

\* if (isAuthenticated && isInitialized)
ShouldSync(isAuthenticated, initialized) == isAuthenticated /\ initialized

\* login: pb.authStore changes, the AuthProvider listener sets the user, and
\* the effect on [isAuthenticated, isInitialized] runs
SignIn ==
    /\ ~authValid /\ nEvents < MaxEvents
    /\ isInitialized => Free # {}
    /\ authValid' = TRUE
    /\ nEvents' = nEvents + 1
    /\ tasks' = Touch(IF ShouldSync(TRUE, isInitialized) THEN SyncStart(tasks)
                      ELSE tasks,
                      IF ShouldSync(TRUE, isInitialized) THEN FreeSlot ELSE 0)
    /\ last' = Event("signIn", None, TRUE, Idle)
    /\ UNCHANGED <<auxVars, localStore, localHomeland, remoteSel, remoteHomeland,
                   isInitialized, selectedCountries, homelandCountry, uiSel,
                   prev>>

\* logout: pb.authStore.clear(); the effect takes its !isAuthenticated branch.
\* clearHomeland throws while the settings database is not open yet.
SignOut ==
    /\ authValid /\ nEvents < MaxEvents
    /\ authValid' = FALSE
    /\ nEvents' = nEvents + 1
    /\ homelandCountry' = None
    /\ localHomeland' = IF isInitialized THEN None ELSE localHomeland
    /\ tasks' = Touch(tasks, 0)
    /\ last' = Event("signOut", None, TRUE, Idle)
    /\ UNCHANGED <<auxVars, localStore, remoteSel, remoteHomeland, isInitialized,
                   selectedCountries, uiSel, prev>>

\* loadSelectedCountries, and the effect that setIsInitialized(true) triggers
LoadSelectedCountries ==
    /\ ~isInitialized
    /\ authValid => Free # {}
    /\ isInitialized' = TRUE
    /\ selectedCountries' = GetSelectedCountries(localStore)
    /\ uiSel' = localStore
    /\ IF ShouldSync(authValid, TRUE)
       THEN /\ homelandCountry' = IF localHomeland # None THEN localHomeland
                                  ELSE homelandCountry
            /\ tasks' = Touch(SyncStart(tasks), FreeSlot)
            /\ UNCHANGED localHomeland
       ELSE /\ homelandCountry' = None
            /\ localHomeland' = None
            /\ tasks' = Touch(tasks, 0)
    /\ last' = Event("load", None, TRUE, Idle)
    /\ UNCHANGED <<auxVars, localStore, remoteSel, remoteHomeland, authValid, prev, nEvents>>

\* ------------------------------------------------------- mutation handlers
\* a handler that returns without waiting for PocketBase
Returns(ev, t) ==
    /\ tasks' = Touch(tasks, 0)
    /\ last' = Event(ev, t.code, TRUE, t)

\* a handler that suspends on a PocketBase call
Suspends(ev, t) ==
    /\ tasks' = Touch([tasks EXCEPT ![FreeSlot] = [t EXCEPT !.slot = FreeSlot]],
                      FreeSlot)
    /\ last' = Event(ev, t.code, TRUE, [t EXCEPT !.slot = FreeSlot])

Thrown_Swallowed(stored) == FALSE

\* await countryStorage.<write>(...): a rejection is thrown to the catch at
\* the end of the handler
Thrown(stored) == ~stored

Mirrors_Always(isAuthenticated) == TRUE

\* if (isAuthenticated): the handler mirrors its change to PocketBase
Mirrors(isAuthenticated) == isAuthenticated

\* CountrySelector toggles a country that is not in its list
HandleCountrySelect(c) ==
    LET t == Entered("select", "save", c) IN
    /\ isInitialized /\ nEvents < MaxEvents /\ c \notin uiSel
    /\ ~IsHomeland(c) /\ Mirrors(authValid) => Free # {}
    /\ nEvents' = nEvents + 1
    /\ prev' = NoPrev
    /\ IF IsHomeland(c)
       THEN \* "Cannot select homeland as visited country"
            /\ uiSel' = uiSel \cup {c}
            /\ Returns("selectRejected", t)
            /\ UNCHANGED <<localStore, selectedCountries>>
       ELSE \E stored \in BOOLEAN :
            LET t1 == [t EXCEPT !.localErr = ~stored] IN
            /\ localStore' = IF stored THEN AddCountry(localStore, c)
                             ELSE localStore
            /\ IF Thrown(stored)
               THEN /\ uiSel' = uiSel \cup {c}
                    /\ Returns("selectFailed", t1)
                    /\ UNCHANGED selectedCountries
               ELSE /\ selectedCountries' = Append(selectedCountries, c)
                    /\ uiSel' = Range(selectedCountries')
                    /\ IF Mirrors(authValid) THEN Suspends("select", t1)
                       ELSE Returns("selectLocal", t1)
    /\ UNCHANGED <<auxVars, localHomeland, remoteSel, remoteHomeland, authValid,
                   isInitialized, homelandCountry>>

\* saveCountrySelection(country) resolves or throws
SaveDone(i) ==
    LET t == tasks[i] IN
    /\ t.kind = "select"
    /\ \E net \in BOOLEAN :
        LET got == t.ok /\ authValid /\ net IN
        /\ remoteSel' = IF got THEN SaveCountrySelection(remoteSel, t.code)
                        ELSE remoteSel
        /\ localStore' = IF got THEN localStore
                         ELSE CatchSaveError(localStore, t.code)
        /\ last' = Event("selectDone", t.code, got, [t EXCEPT !.failed = ~got])
    /\ tasks' = Touch([tasks EXCEPT ![i] = Idle], i)
    /\ prev' = NoPrev
    /\ UNCHANGED <<auxVars, localHomeland, remoteHomeland, authValid,
                   isInitialized, selectedCountries, homelandCountry, uiSel, nEvents>>

\* CountrySelector toggles a country that is in its list
HandleCountryDeselect(c) ==
    LET t == Entered("deselect", "remove", c) IN
    /\ isInitialized /\ nEvents < MaxEvents /\ c \in uiSel
    /\ Mirrors(authValid) => Free # {}
    /\ nEvents' = nEvents + 1
    /\ prev' = NoPrev
    /\ \E stored \in BOOLEAN :
        LET t1 == [t EXCEPT !.localErr = ~stored] IN
        /\ localStore' = IF stored THEN RemoveCountry(localStore, c)
                         ELSE localStore
        /\ IF Thrown(stored)
           THEN /\ uiSel' = uiSel \ {c}
                /\ Returns("deselectFailed", t1)
                /\ UNCHANGED selectedCountries
           ELSE /\ selectedCountries' = Filter(selectedCountries, c)
                /\ uiSel' = Range(selectedCountries')
                /\ IF Mirrors(authValid) THEN Suspends("deselect", t1)
                   ELSE Returns("deselectLocal", t1)
    /\ UNCHANGED <<auxVars, localHomeland, remoteSel, remoteHomeland, authValid,
                   isInitialized, homelandCountry>>

\* removeCountrySelection(countryId) resolves or throws
RemoveDone(i) ==
    LET t == tasks[i] IN
    /\ t.kind = "deselect"
    /\ \E net \in BOOLEAN :
        LET got == t.ok /\ authValid /\ net IN
        /\ remoteSel' = IF got THEN RemoveCountrySelection(remoteSel, t.code)
                        ELSE remoteSel
        /\ last' = Event("deselectDone", t.code, got, [t EXCEPT !.failed = ~got])
    /\ tasks' = Touch([tasks EXCEPT ![i] = Idle], i)
    /\ prev' = NoPrev
    /\ UNCHANGED <<auxVars, localStore, localHomeland, remoteHomeland, authValid,
                   isInitialized, selectedCountries, homelandCountry, uiSel, nEvents>>

\* CountrySelector's "Clear All", shown while its list is not empty
HandleClearAll ==
    LET t == Entered("clear", "clear", None) IN
    /\ isInitialized /\ nEvents < MaxEvents /\ uiSel # {}
    /\ Mirrors(authValid) => Free # {}
    /\ nEvents' = nEvents + 1
    /\ prev' = NoPrev
    /\ uiSel' = {}
    /\ \E stored \in BOOLEAN :
        LET t1 == [t EXCEPT !.localErr = ~stored] IN
        /\ localStore' = IF stored THEN {} ELSE localStore
        /\ IF Thrown(stored)
           THEN /\ Returns("clearFailed", t1)
                /\ UNCHANGED selectedCountries
           ELSE /\ selectedCountries' = <<>>
                /\ IF Mirrors(authValid) THEN Suspends("clear", t1)
                   ELSE Returns("clearLocal", t1)
    /\ UNCHANGED <<auxVars, localHomeland, remoteSel, remoteHomeland, authValid,
                   isInitialized, homelandCountry>>

\* clearAllCountrySelections resolves, or throws after some of the deletes
ClearDone(i) ==
    LET t == tasks[i] IN
    /\ t.kind = "clear"
    /\ \E net \in BOOLEAN :
        LET got == t.ok /\ authValid /\ net IN
        /\ \E D \in SUBSET RowCodes(remoteSel) :
            /\ got => D = RowCodes(remoteSel)
            /\ ~got => (IF t.ok /\ RowCodes(remoteSel) # {}
                        THEN D # RowCodes(remoteSel) ELSE D = {})
            /\ remoteSel' = [c \in Codes |-> IF c \in D THEN 0 ELSE remoteSel[c]]
        /\ last' = Event("clearDone", None, got, [t EXCEPT !.failed = ~got])
    /\ tasks' = Touch([tasks EXCEPT ![i] = Idle], i)
    /\ prev' = NoPrev
    /\ UNCHANGED <<auxVars, localStore, localHomeland, remoteHomeland, authValid,
                   isInitialized, selectedCountries, homelandCountry, uiSel, nEvents>>

\* the visited-country eviction of handleHomelandSelect (local part)
Evict(t) ==
    IF t.wasSel
    THEN /\ localStore' = RemoveCountry(localStore, t.code)
         /\ selectedCountries' = Filter(selectedCountries, t.code)
         /\ uiSel' = Range(selectedCountries')
    ELSE UNCHANGED <<localStore, selectedCountries, uiSel>>

\* HomelandSelector picks a country
HandleHomelandSelect(c) ==
    LET t == [Entered("homeland", "setHomeland", c) EXCEPT
                 !.wasSel = IsCurrentlySelected(selectedCountries, c)] IN
    /\ isInitialized /\ nEvents < MaxEvents
    /\ Mirrors(authValid) => Free # {}
    /\ nEvents' = nEvents + 1
    /\ prev' = NoPrev
    /\ homelandCountry' = c
    /\ localHomeland' = c
    /\ IF Mirrors(authValid)
       THEN /\ Suspends("homeland", t)
            /\ UNCHANGED <<localStore, selectedCountries, uiSel>>
       ELSE /\ Evict(t)
            /\ Returns("homelandDone", t)
    /\ UNCHANGED <<auxVars, remoteSel, remoteHomeland, authValid, isInitialized>>

\* pocketbaseService.setHomeland(country) resolves or throws; the eviction
\* follows, decided by the selectedCountries of the handler's closure
HomelandSetDone(i) ==
    LET t == tasks[i] IN
    /\ t.kind = "homeland" /\ t.pc = "setHomeland"
    /\ \E net \in BOOLEAN :
        LET got == t.ok /\ authValid /\ net
            t1 == [t EXCEPT !.failed = ~got]
        IN /\ remoteHomeland' = IF got THEN t.code ELSE remoteHomeland
           /\ Evict(t)
           /\ IF t.wasSel
              THEN /\ tasks' = Touch([tasks EXCEPT ![i] =
                                [t1 EXCEPT !.pc = "evict", !.ok = authValid]], i)
                   /\ last' = Event("homelandStep", t.code, got,
                                    [t1 EXCEPT !.pc = "evict", !.ok = authValid])
              ELSE /\ tasks' = Touch([tasks EXCEPT ![i] = Idle], i)
                   /\ last' = Event("homelandDone", t.code, got, t1)
    /\ prev' = NoPrev
    /\ UNCHANGED <<auxVars, localHomeland, remoteSel, authValid, isInitialized,
                   homelandCountry, nEvents>>

\* removeCountrySelection(country.alpha3) of the eviction resolves or throws
HomelandEvictDone(i) ==
    LET t == tasks[i] IN
    /\ t.kind = "homeland" /\ t.pc = "evict"
    /\ \E net \in BOOLEAN :
        LET got == t.ok /\ authValid /\ net IN
        /\ remoteSel' = IF got THEN RemoveCountrySelection(remoteSel, t.code)
                        ELSE remoteSel
        /\ last' = Event("homelandDone", t.code, got,
                         [t EXCEPT !.failed = @ \/ ~got])
    /\ tasks' = Touch([tasks EXCEPT ![i] = Idle], i)
    /\ prev' = NoPrev
    /\ UNCHANGED <<auxVars, localStore, localHomeland, remoteHomeland, authValid,
                   isInitialized, selectedCountries, homelandCountry, uiSel, nEvents>>

\* HomelandSelector's clear button, shown while a homeland is set
HandleHomelandClear ==
    LET t == Entered("homelandClear", "clear", None) IN
    /\ isInitialized /\ nEvents < MaxEvents /\ homelandCountry # None
    /\ Mirrors(authValid) => Free # {}
    /\ nEvents' = nEvents + 1
    /\ prev' = NoPrev
    /\ localHomeland' = None
    /\ homelandCountry' = None
    /\ IF Mirrors(authValid) THEN Suspends("homelandClear", t)
       ELSE Returns("homelandClearLocal", t)
    /\ UNCHANGED <<auxVars, localStore, remoteSel, remoteHomeland, authValid,
                   isInitialized, selectedCountries, uiSel>>

\* pocketbaseService.clearHomeland() resolves or throws
HomelandClearDone(i) ==
    LET t == tasks[i] IN
    /\ t.kind = "homelandClear"
    /\ \E net \in BOOLEAN :
        LET got == t.ok /\ authValid /\ net IN
        /\ remoteHomeland' = IF got THEN None ELSE remoteHomeland
        /\ last' = Event("homelandClearDone", None, got,
                         [t EXCEPT !.failed = ~got])
    /\ tasks' = Touch([tasks EXCEPT ![i] = Idle], i)
    /\ prev' = NoPrev
    /\ UNCHANGED <<auxVars, localStore, localHomeland, remoteSel, authValid,
                   isInitialized, selectedCountries, homelandCountry, uiSel, nEvents>>

\* ------------------------------------------------------------ specification
Next ==
    \/ SignIn
    \/ SignOut
    \/ LoadSelectedCountries
    \/ \E c \in Codes : HandleCountrySelect(c)
    \/ \E c \in Codes : HandleCountryDeselect(c)
    \/ HandleClearAll
    \/ \E c \in Codes : HandleHomelandSelect(c)
    \/ HandleHomelandClear
    \/ \E i \in Slots : SyncFetchSel(i)
    \/ \E i \in Slots : SyncFetchHome(i)
    \/ \E i \in Slots : SyncHomePush(i)
    \/ \E i \in Slots : SyncPush(i)
    \/ \E i \in Slots : SaveDone(i)
    \/ \E i \in Slots : RemoveDone(i)
    \/ \E i \in Slots : ClearDone(i)
    \/ \E i \in Slots : HomelandSetDone(i)
    \/ \E i \in Slots : HomelandEvictDone(i)
    \/ \E i \in Slots : HomelandClearDone(i)

Spec == Init /\ [][Next]_vars

\* every PocketBase call of a pass eventually resolves or throws
CallsReturn ==
    \A i \in Slots : /\ WF_vars(SyncFetchSel(i)) /\ WF_vars(SyncFetchHome(i))
                     /\ WF_vars(SyncHomePush(i)) /\ WF_vars(SyncPush(i))

\* the Index route with at most MaxLiveEvents user events
LiveNext ==
    \/ nEvents < MaxLiveEvents /\ SignIn
    \/ nEvents < MaxLiveEvents /\ SignOut
    \/ LoadSelectedCountries
    \/ \E c \in Codes : nEvents < MaxLiveEvents /\ HandleCountrySelect(c)
    \/ \E c \in Codes : nEvents < MaxLiveEvents /\ HandleCountryDeselect(c)
    \/ nEvents < MaxLiveEvents /\ HandleClearAll
    \/ \E c \in Codes : nEvents < MaxLiveEvents /\ HandleHomelandSelect(c)
    \/ nEvents < MaxLiveEvents /\ HandleHomelandClear
    \/ \E i \in Slots : SyncFetchSel(i)
    \/ \E i \in Slots : SyncFetchHome(i)
    \/ \E i \in Slots : SyncHomePush(i)
    \/ \E i \in Slots : SyncPush(i)
    \/ \E i \in Slots : SaveDone(i)
    \/ \E i \in Slots : RemoveDone(i)
    \/ \E i \in Slots : ClearDone(i)
    \/ \E i \in Slots : HomelandSetDone(i)
    \/ \E i \in Slots : HomelandEvictDone(i)
    \/ \E i \in Slots : HomelandClearDone(i)

LiveSpec == Init /\ [][LiveNext]_vars /\ CallsReturn

\* ----------------------------------------------- close-up: the countryMap
\* The merge of one pass with the records' display names.  Local records
\* carry the name they were stored with; remote rows carry only the code and
\* get their name from the catalogue (alpha3ToCountry).
Names == {"Germany", "France", "Deutschland"}

\* alpha3ToCountry: countries.getName(alpha3, "en")
Alpha3ToCountry(c) ==
    [alpha3 |-> c, name |-> IF c = "DEU" THEN "Germany" ELSE "France"]

\* pocketbaseCountries.map(...): the fetched list as SelectedCountry records
PocketbaseSelections(bag) ==
    LET R == GetUserCountrySelections(bag)
    IN [i \in 1..Len(R) |-> Alpha3ToCountry(R[i])]

\* the local store's getAll() for a store that holds names[c] for c in keys
LocalSelections(keys, names) ==
    LET L == GetSelectedCountries(keys)
    IN [i \in 1..Len(L) |-> [alpha3 |-> L[i], name |-> names[L[i]]]]

Index(map, c) == {i \in 1..Len(map) : map[i].alpha3 = c}

CountryMapSet_KeepFirst(map, rec) ==
    IF Index(map, rec.alpha3) = {} THEN Append(map, rec) ELSE map

\* Map.prototype.set: a new key is appended, an existing key keeps its place
\* and takes the new value
CountryMapSet(map, rec) ==
    IF Index(map, rec.alpha3) = {} THEN Append(map, rec)
    ELSE [i \in 1..Len(map) |->
             IF map[i].alpha3 = rec.alpha3 THEN rec ELSE map[i]]

\* one iteration of a for loop over list that calls countryMap.set
MergeSet(list) ==
    /\ merge.todo # <<>>
    /\ merge' = [merge EXCEPT !.map = CountryMapSet(@, Head(merge.todo)),
                              !.todo = Tail(@)]

\* for (const country of localSelections) countryMap.set(...)
MergeLocal ==
    /\ merge.pc = "local"
    /\ MergeSet(merge.L)
    /\ UNCHANGED <<appVars, svc, db>>

\* the first loop is over; the second one starts
MergeTurn ==
    /\ merge.pc = "local" /\ merge.todo = <<>>
    /\ merge' = [merge EXCEPT !.pc = "remote", !.todo = merge.R]
    /\ UNCHANGED <<appVars, svc, db>>

\* for (const country of pocketbaseSelections) countryMap.set(...)
MergeRemote ==
    /\ merge.pc = "remote"
    /\ MergeSet(merge.R)
    /\ UNCHANGED <<appVars, svc, db>>

\* mergedSelections = Array.from(countryMap.values())
MergeValues ==
    /\ merge.pc = "remote" /\ merge.todo = <<>>
    /\ merge' = [merge EXCEPT !.pc = "done"]
    /\ UNCHANGED <<appVars, svc, db>>

\* the Index route at rest, for the close-ups
AppAtRest ==
    /\ localStore = {} /\ localHomeland = None
    /\ remoteSel = NoRows /\ remoteHomeland = None
    /\ authValid = TRUE /\ isInitialized = TRUE
    /\ selectedCountries = <<>> /\ homelandCountry = None /\ uiSel = {}
    /\ tasks = [i \in Slots |-> Idle]
    /\ last = [ev |-> "mount", code |-> None, ok |-> TRUE, t |-> Idle,
               prev |-> NoPrev]
    /\ prev = NoPrev /\ nEvents = 0

\* a pass has read its two lists: any local store, any remote rows (a code
\* may have more than one row)
MergeInit ==
    /\ AppAtRest
    /\ svc = NoSvc
    /\ db = NoDb
    /\ \E keys \in SUBSET Codes, names \in [Codes -> Names],
          bag \in [Codes -> 0..MaxRows] :
          LET L == LocalSelections(keys, names) IN
          merge = [pc |-> "local", L |-> L, R |-> PocketbaseSelections(bag),
                   map |-> <<>>, todo |-> L]

MergeNext == MergeLocal \/ MergeTurn \/ MergeRemote \/ MergeValues

MergeSpec == MergeInit /\ [][MergeNext]_vars

\* ------------------------------------- close-up: CountryStorageService
\* The object store record by record.  A record is keyed by its id (keyPath
\* "id", the country code the caller passes); getAll() returns the records in
\* key order.  keys is history: the ids added and not since removed or cleared.
Keys(recs) == {recs[i].id : i \in 1..Len(recs)}

\* records in key order
RECURSIVE ByKey(_, _)
ByKey(order, recs) ==
    IF order = <<>> THEN <<>>
    ELSE SelectSeq(recs, LAMBDA r : r.id = Head(order)) \o ByKey(Tail(order), recs)

StorePut_Add(recs, rec) == ByKey(CodeOrder, Append(recs, rec))

\* store.put(countryWithMetadata): the record replaces the one of its key
StorePut(recs, rec) ==
    ByKey(CodeOrder, Append(SelectSeq(recs, LAMBDA r : r.id # rec.id), rec))

\* store.delete(countryId)
StoreDelete(recs, id) == SelectSeq(recs, LAMBDA r : r.id # id)

\* store.get(countryId), as isCountrySelected reads it: !!request.result
StoreGet(recs, id) ==
    IF \E i \in 1..Len(recs) : recs[i].id = id THEN "true" ELSE "false"

\* a store call returns: res is what the promise settled with
DbReturn(op, id, res, recs, keys) ==
    /\ db.pc = "run"
    /\ db' = [db EXCEPT !.recs = recs, !.keys = keys, !.n = @ + 1,
                        !.last = [op |-> op, id |-> id, res |-> res,
                                  before |-> [op |-> db.last.op,
                                              id |-> db.last.id,
                                              res |-> db.last.res]]]
    /\ UNCHANGED <<appVars, merge, svc>>

\* every method: if (!this.db) throw new Error("Database not initialized");
\* request.onerror rejects and leaves the store as it was
DbSettle(op, id, res, recs, keys) ==
    \E onerror \in BOOLEAN :
        IF ~db.open \/ onerror
        THEN DbReturn(op, id, "threw", db.recs, db.keys)
        ELSE DbReturn(op, id, res, recs, keys)

\* countryStorage.init()
DbInit ==
    /\ db.pc = "run" /\ ~db.open
    /\ db' = [db EXCEPT !.open = TRUE]
    /\ UNCHANGED <<appVars, merge, svc>>

\* countryStorage.addCountry(country)
DbAddCountry(id, name) ==
    /\ db.n < MaxOps
    /\ DbSettle("add", id, "ok", StorePut(db.recs, [id |-> id, name |-> name]),
                db.keys \cup {id})

\* countryStorage.removeCountry(countryId)
DbRemoveCountry(id) ==
    /\ db.n < MaxOps
    /\ DbSettle("remove", id, "ok", StoreDelete(db.recs, id), db.keys \ {id})

\* countryStorage.isCountrySelected(countryId)
DbIsCountrySelected(id) ==
    /\ db.n < MaxOps
    /\ DbSettle("has", id, StoreGet(db.recs, id), db.recs, db.keys)

\* countryStorage.clearAllCountries()
DbClearAllCountries ==
    /\ db.n < MaxOps
    /\ DbSettle("clear", None, "ok", <<>>, {})

NoOp == [op |-> "-", id |-> None, res |-> "-"]

\* the store as earlier sessions left it; the service is not yet initialized
DbStart ==
    /\ AppAtRest
    /\ merge = NoMerge /\ svc = NoSvc
    /\ \E keys \in SUBSET Codes, names \in [Codes -> Names] :
          db = [pc |-> "run", open |-> FALSE, n |-> 0, keys |-> keys,
                recs |-> [i \in 1..Len(GetSelectedCountries(keys)) |->
                            [id |-> GetSelectedCountries(keys)[i],
                             name |-> names[GetSelectedCountries(keys)[i]]]],
                last |-> NoOp]

DbNext ==
    \/ DbInit
    \/ \E id \in Codes, name \in Names : DbAddCountry(id, name)
    \/ \E id \in Codes : DbRemoveCountry(id)
    \/ \E id \in Codes : DbIsCountrySelected(id)
    \/ DbClearAllCountries

DbSpec == DbStart /\ [][DbNext]_vars

\* ------------------------------------------ close-up: PocketbaseService
\* The service methods request by request.  A method call is entered (the
\* isAuthenticated check), fetches or creates the profile (getUserProfile),
\* and then issues its own requests; other calls run between its requests.
\* The session does not change during the close-up.
WriteOps == {"save", "remove", "clearAll", "setHomeland", "clearHomeland",
             "toggle"}

ReadOps == {"list", "getHomeland"}

CodeOps == {"save", "remove", "setHomeland"}

\* the catch of a method: writes and login rethrow, reads return [] or null
Fails(op) == IF op \in WriteOps \cup {"login"} THEN "threw" ELSE "empty"

\* a free call slot; res is "-" while the call is running
NoCall == [op |-> "-", code |-> None, pc |-> "-", n |-> 0, res |-> "-",
           reqs |-> 0,            \* history: requests issued
           todo |-> <<>>,         \* clearAll: records still to delete
           left |-> <<>>,         \* history: records never attempted
           seen |-> FALSE,        \* toggle: profile.shared as fetched
           value |-> <<>>,        \* result of a read
           made |-> FALSE,        \* history: this call created the profile
           id |-> None,           \* getSharedProfile: the id asked for
           viewer |-> "-",        \* getSharedProfile: whose browser asks
           lost |-> FALSE,        \* history: a request was not answered
           good |-> FALSE,        \* login: the credentials are accepted
           solo |-> TRUE]

CallSlots == 1..MaxTasks

FreeCalls == {k \in CallSlots : svc.calls[k].op = "-"}

\* the state of the Index route that the service does not touch
uiVars == <<localStore, localHomeland, isInitialized, selectedCountries,
            homelandCountry, uiSel, tasks, last, prev, nEvents>>

Authenticated_Skip(valid) == TRUE

\* if (!this.isAuthenticated()) at the head of every method
Authenticated(valid) == valid

UniqueUserIndex_Dropped(n) == TRUE

\* CREATE UNIQUE INDEX ON user_profiles (user): a create is admitted when the
\* user has no profile
UniqueUserIndex(n) == n = 0

\* call slot k moves on to c (finished when c.res is set); profiles and shared
\* are the user_profiles rows after the step
SvcStepSession(base, k, c, profiles, shared, valid) ==
    /\ svc' = [base EXCEPT
          !.calls = [j \in CallSlots |->
                        IF j = k THEN (IF c.res = "-" THEN c ELSE NoCall)
                        ELSE IF svc.calls[j].op = "-" THEN NoCall
                        ELSE [svc.calls[j] EXCEPT !.solo = FALSE]],
          !.done = IF c.res = "-" THEN svc.done ELSE c,
          !.nCalls = IF c.n > svc.nCalls THEN c.n ELSE svc.nCalls,
          !.profiles = profiles,
          !.shared = shared]
    /\ authValid' = valid
    /\ UNCHANGED <<uiVars, merge, db>>

\* a step that leaves the session alone
SvcStepOn(base, k, c, profiles, shared) ==
    SvcStepSession(base, k, c, profiles, shared, authValid)

SvcStep(k, c, profiles, shared) == SvcStepOn(svc, k, c, profiles, shared)

\* a step that leaves the user_profiles rows alone
SvcMove(k, c) == SvcStep(k, c, svc.profiles, svc.shared)

\* a request reaches the server with a valid token and is answered
Answered(net) == authValid /\ net

\* the pc after getUserProfile
AfterProfile(op) ==
    CASE op \in {"save", "remove"} -> "check"
      [] op \in {"list", "clearAll"} -> "list"
      [] OTHER -> "update"

\* getUserProfile has returned the profile p to the method
SvcGotProfile(k, c, profiles, shared, home) ==
    IF c.op = "login"
    THEN SvcStep(k, [c EXCEPT !.res = "value"], profiles, shared)
    ELSE IF c.op = "getHomeland"
    THEN SvcStep(k, [c EXCEPT !.res = IF home = None THEN "empty" ELSE "value",
                              !.value = IF home = None THEN <<>> ELSE <<home>>],
                 profiles, shared)
    ELSE SvcStep(k, [c EXCEPT !.pc = AfterProfile(c.op), !.seen = shared],
                 profiles, shared)

\* a method is called: the guard, then getUserProfile's getList is sent
SvcCall(op, code) ==
    LET k == CHOOSE j \in FreeCalls : \A i \in FreeCalls : j <= i
        c == [NoCall EXCEPT !.op = op, !.code = code, !.n = svc.nCalls + 1,
                            !.pc = "profile"]
    IN /\ svc.pc = "run" /\ FreeCalls # {} /\ svc.nCalls < MaxCalls
       /\ (op \in CodeOps) = (code # None)
       /\ IF Authenticated(authValid)
          THEN SvcMove(k, c)
          ELSE SvcMove(k, [c EXCEPT !.res = Fails(op)])
       /\ UNCHANGED <<remoteSel, remoteHomeland>>

\* AuthModal submits: pocketbaseService.login or loginWithOAuth2 is called
SvcLogin(good) ==
    LET k == CHOOSE j \in FreeCalls : \A i \in FreeCalls : j <= i
        c == [NoCall EXCEPT !.op = "login", !.good = good,
                            !.n = svc.nCalls + 1, !.pc = "auth"]
    IN /\ svc.pc = "run" /\ FreeCalls # {} /\ svc.nCalls < MaxCalls
       /\ ~authValid
       /\ SvcMove(k, c)
       /\ UNCHANGED <<remoteSel, remoteHomeland>>

\* authWithPassword / authWithOAuth2 is answered: on success the SDK saves the
\* token in pb.authStore and the onChange listener of AuthProvider sets the
\* user; ensureUserProfile follows
SvcAuth(k) ==
    LET c == [svc.calls[k] EXCEPT !.reqs = @ + 1] IN
    /\ svc.calls[k].pc = "auth"
    /\ \E net \in BOOLEAN :
          IF net /\ c.good
          THEN SvcStepSession(svc, k, [c EXCEPT !.pc = "profile"],
                              svc.profiles, svc.shared, TRUE)
          ELSE SvcMove(k, [c EXCEPT !.res = "threw", !.lost = ~net])
    /\ UNCHANGED <<remoteSel, remoteHomeland>>

\* ensureUserProfile: getList(1, 1) on user_profiles is answered or fails
SvcProfileList(k) ==
    LET c == [svc.calls[k] EXCEPT !.reqs = @ + 1] IN
    /\ svc.calls[k].pc = "profile"
    /\ \E net \in BOOLEAN :
          IF ~Answered(net) THEN SvcMove(k, [c EXCEPT !.res = Fails(c.op)])
          ELSE IF svc.profiles > 0
          THEN SvcGotProfile(k, c, svc.profiles, svc.shared, remoteHomeland)
          ELSE SvcMove(k, [c EXCEPT !.pc = "profileCreate"])
    /\ UNCHANGED <<remoteSel, remoteHomeland>>

CatchCreateError_UseExisting(c) == [c EXCEPT !.pc = AfterProfile(c.op)]

\* catch of ensureUserProfile: throw new Error("Failed to create user
\* profile"), which the catch of the method rethrows or turns into [] / null
CatchCreateError(c) == [c EXCEPT !.res = Fails(c.op)]

\* ensureUserProfile: create on user_profiles is answered, rejected or fails
SvcProfileCreate(k) ==
    LET c == [svc.calls[k] EXCEPT !.reqs = @ + 1] IN
    /\ svc.calls[k].pc = "profileCreate"
    /\ \E net \in BOOLEAN :
          IF Answered(net) /\ UniqueUserIndex(svc.profiles)
          THEN SvcGotProfile(k, [c EXCEPT !.made = TRUE], svc.profiles + 1,
                             IF svc.profiles = 0 THEN FALSE ELSE svc.shared,
                             remoteHomeland)
          ELSE SvcMove(k, CatchCreateError([c EXCEPT !.lost = ~Answered(net)]))
    /\ UNCHANGED <<remoteSel, remoteHomeland>>

CreateRow(bag, c) == [bag EXCEPT ![c] = @ + 1]

DeleteRow(bag, c) == [bag EXCEPT ![c] = @ - 1]

\* saveCountrySelection: getList(1, 1) for (profile, code)
SvcSaveCheck(k) ==
    LET c == [svc.calls[k] EXCEPT !.reqs = @ + 1] IN
    /\ c.op = "save" /\ c.pc = "check"
    /\ \E net \in BOOLEAN :
          IF ~Answered(net) THEN SvcMove(k, [c EXCEPT !.res = "threw"])
          ELSE IF remoteSel[c.code] > 0 THEN SvcMove(k, [c EXCEPT !.res = "ok"])
          ELSE SvcMove(k, [c EXCEPT !.pc = "create"])
    /\ UNCHANGED <<remoteSel, remoteHomeland>>

\* saveCountrySelection: create on country_selections (no unique index)
SvcSaveCreate(k) ==
    LET c == [svc.calls[k] EXCEPT !.reqs = @ + 1] IN
    /\ c.op = "save" /\ c.pc = "create"
    /\ remoteSel[c.code] < MaxRows
    /\ \E net \in BOOLEAN :
          IF Answered(net)
          THEN /\ remoteSel' = CreateRow(remoteSel, c.code)
               /\ SvcMove(k, [c EXCEPT !.res = "ok"])
          ELSE /\ UNCHANGED remoteSel
               /\ SvcMove(k, [c EXCEPT !.res = "threw"])
    /\ UNCHANGED remoteHomeland

\* removeCountrySelection: getList(1, 1) for (profile, code)
SvcRemoveCheck(k) ==
    LET c == [svc.calls[k] EXCEPT !.reqs = @ + 1] IN
    /\ c.op = "remove" /\ c.pc = "check"
    /\ \E net \in BOOLEAN :
          IF ~Answered(net) THEN SvcMove(k, [c EXCEPT !.res = "threw"])
          ELSE IF remoteSel[c.code] > 0 THEN SvcMove(k, [c EXCEPT !.pc = "delete"])
          ELSE SvcMove(k, [c EXCEPT !.res = "ok"])
    /\ UNCHANGED <<remoteSel, remoteHomeland>>

\* removeCountrySelection: delete(records.items[0].id)
SvcRemoveDelete(k) ==
    LET c == [svc.calls[k] EXCEPT !.reqs = @ + 1] IN
    /\ c.op = "remove" /\ c.pc = "delete"
    /\ \E net \in BOOLEAN :
          IF Answered(net) /\ remoteSel[c.code] > 0
          THEN /\ remoteSel' = DeleteRow(remoteSel, c.code)
               /\ SvcMove(k, [c EXCEPT !.res = "ok"])
          ELSE /\ UNCHANGED remoteSel
               /\ SvcMove(k, [c EXCEPT !.res = "threw"])
    /\ UNCHANGED remoteHomeland

\* getFullList on country_selections, of getUserCountrySelections and of
\* clearAllCountrySelections
SvcList(k) ==
    LET c == [svc.calls[k] EXCEPT !.reqs = @ + 1]
        rows == GetUserCountrySelections(remoteSel)
    IN
    /\ c.pc = "list"
    /\ \E net \in BOOLEAN :
          IF ~Answered(net) THEN SvcMove(k, [c EXCEPT !.res = Fails(c.op)])
          ELSE IF c.op = "list"
          THEN SvcMove(k, [c EXCEPT !.res = "value", !.value = rows])
          ELSE IF rows = <<>> THEN SvcMove(k, [c EXCEPT !.res = "ok"])
          ELSE SvcMove(k, [c EXCEPT !.pc = "delete", !.todo = rows])
    /\ UNCHANGED <<remoteSel, remoteHomeland>>

\* clearAllCountrySelections: one delete of the for loop; a throw leaves the
\* loop
SvcClearDelete(k) ==
    LET c == [svc.calls[k] EXCEPT !.reqs = @ + 1]
        code == Head(c.todo)
        rest == Tail(c.todo)
    IN
    /\ c.op = "clearAll" /\ c.pc = "delete"
    /\ \E net \in BOOLEAN :
          IF Answered(net) /\ remoteSel[code] > 0
          THEN /\ remoteSel' = DeleteRow(remoteSel, code)
               /\ SvcMove(k, [c EXCEPT !.todo = rest,
                                       !.res = IF rest = <<>> THEN "ok" ELSE "-"])
          ELSE /\ UNCHANGED remoteSel
               /\ SvcMove(k, [c EXCEPT !.todo = <<>>, !.left = rest,
                                       !.res = "threw"])
    /\ UNCHANGED remoteHomeland

NewSharedValue_On(shared) == TRUE

\* const newSharedValue = !profile.shared
NewSharedValue(shared) == ~shared

\* record ids: PocketBase gives every record an id of its own
UserId == "u1"

ProfileId == "p1"

Ids == {UserId, ProfileId}

\* generateShareUrl(user.id): the id at the end of the copied link
GenerateShareUrl == UserId

\* update on user_profiles, of setHomeland, clearHomeland and toggleMapSharing
SvcUpdate(k) ==
    LET c == [svc.calls[k] EXCEPT !.reqs = @ + 1] IN
    /\ c.pc = "update"
    /\ \E net \in BOOLEAN :
          IF ~Answered(net)
          THEN /\ SvcMove(k, [c EXCEPT !.res = "threw"])
               /\ UNCHANGED remoteHomeland
          ELSE IF c.op = "toggle"
          THEN \* toggleMapSharing returns; handleToggleSharing copies the link
               LET new == NewSharedValue(c.seen) IN
               /\ SvcStepOn([svc EXCEPT !.link = IF new THEN GenerateShareUrl
                                                 ELSE svc.link],
                            k, [c EXCEPT !.res = "value", !.value = <<new>>],
                            svc.profiles, new)
               /\ UNCHANGED remoteHomeland
          ELSE /\ remoteHomeland' = c.code
               /\ SvcMove(k, [c EXCEPT !.res = "ok"])
    /\ UNCHANGED remoteSel

ViewRule_Open(isOwner, shared) == TRUE

\* viewRule of user_profiles, listRule of country_selections:
\* user.id = @request.auth.id || shared = true
ViewRule(isOwner, shared) == isOwner \/ shared

\* the /shared/$userId route calls getSharedProfile(id); no session is needed
SvcGetShared(id, viewer) ==
    LET k == CHOOSE j \in FreeCalls : \A i \in FreeCalls : j <= i
        c == [NoCall EXCEPT !.op = "getShared", !.id = id, !.viewer = viewer,
                            !.n = svc.nCalls + 1, !.pc = "getOne"]
    IN /\ svc.pc = "run" /\ FreeCalls # {} /\ svc.nCalls < MaxCalls
       /\ viewer = "owner" => authValid
       /\ SvcMove(k, c)
       /\ UNCHANGED <<remoteSel, remoteHomeland>>

\* getSharedProfile: getOne(profileId) on user_profiles
SvcSharedGetOne(k) ==
    LET c == [svc.calls[k] EXCEPT !.reqs = @ + 1]
        found == /\ c.id = ProfileId /\ svc.profiles > 0
                 /\ ViewRule(c.viewer = "owner", svc.shared)
    IN
    /\ c.op = "getShared" /\ c.pc = "getOne"
    /\ \E net \in BOOLEAN :
          IF ~net THEN SvcMove(k, [c EXCEPT !.res = "empty", !.lost = TRUE])
          ELSE IF found
          THEN SvcMove(k, [c EXCEPT !.pc = "sharedList", !.seen = svc.shared])
          ELSE SvcMove(k, [c EXCEPT !.res = "empty"])
    /\ UNCHANGED <<remoteSel, remoteHomeland>>

\* getSharedProfile: getFullList on country_selections for the profile
SvcSharedList(k) ==
    LET c == [svc.calls[k] EXCEPT !.reqs = @ + 1]
        rows == IF ViewRule(c.viewer = "owner", svc.shared)
                THEN GetUserCountrySelections(remoteSel) ELSE <<>>
    IN
    /\ c.op = "getShared" /\ c.pc = "sharedList"
    /\ \E net \in BOOLEAN :
          IF net THEN SvcMove(k, [c EXCEPT !.res = "value", !.value = rows])
          ELSE SvcMove(k, [c EXCEPT !.res = "empty", !.lost = TRUE])
    /\ UNCHANGED <<remoteSel, remoteHomeland>>

\* a session, signed in or not, at the service: a user without a profile has
\* no rows and no homeland; a code may have several rows
SvcInit ==
    /\ localStore = {} /\ localHomeland = None /\ isInitialized = TRUE
    /\ selectedCountries = <<>> /\ homelandCountry = None /\ uiSel = {}
    /\ tasks = [i \in Slots |-> Idle]
    /\ last = [ev |-> "mount", code |-> None, ok |-> TRUE, t |-> Idle,
               prev |-> NoPrev]
    /\ prev = NoPrev /\ nEvents = 0
    /\ merge = NoMerge
    /\ db = NoDb
    /\ authValid \in BOOLEAN
    /\ remoteSel \in [Codes -> 0..MaxRows]
    /\ remoteHomeland \in Codes \cup {None}
    /\ \E profiles \in 0..1, shared \in BOOLEAN :
          /\ profiles = 0 => /\ remoteSel = NoRows /\ remoteHomeland = None
                             /\ ~shared
          /\ svc = [pc |-> "run", profiles |-> profiles, shared |-> shared,
                    calls |-> [k \in CallSlots |-> NoCall], done |-> NoCall,
                    nCalls |-> 0, link |-> None]

SvcNext ==
    \/ \E op \in WriteOps \cup ReadOps, code \in Codes \cup {None} :
          SvcCall(op, code)
    \/ \E k \in CallSlots : SvcProfileList(k)
    \/ \E k \in CallSlots : SvcProfileCreate(k)
    \/ \E k \in CallSlots : SvcSaveCheck(k)
    \/ \E k \in CallSlots : SvcSaveCreate(k)
    \/ \E k \in CallSlots : SvcRemoveCheck(k)
    \/ \E k \in CallSlots : SvcRemoveDelete(k)
    \/ \E k \in CallSlots : SvcList(k)
    \/ \E k \in CallSlots : SvcClearDelete(k)
    \/ \E k \in CallSlots : SvcUpdate(k)
    \/ \E id \in Ids, viewer \in {"owner", "other"} : SvcGetShared(id, viewer)
    \/ \E k \in CallSlots : SvcSharedGetOne(k)
    \/ \E k \in CallSlots : SvcSharedList(k)
    \/ \E good \in BOOLEAN : SvcLogin(good)
    \/ \E k \in CallSlots : SvcAuth(k)

SvcSpec == SvcInit /\ [][SvcNext]_vars

\* =================================================================== claims
\* a reconciliation pass has just returned; p is its final record
PassDone == last.ev = "syncDone"

\* C1: a pass whose remote fetch succeeded (both getUserCountrySelections and
\* getHomeland answered, no other handler interleaved) leaves the in-memory
\* selection equal to the key union of the local and the fetched remote set,
\* with no code twice.
C1_UnionAfterFetch ==
    (PassDone /\ last.t.solo /\ last.t.fetchSelOk /\ last.t.fetchHomeOk)
    => /\ Range(selectedCountries) = Range(last.t.L) \cup Range(last.t.R)
       /\ NoDup(selectedCountries)

\* C2: after a pass that applied its merge, every code of the merged set is a
\* key of the local selection store.
C2_MergedInLocalStore ==
    (PassDone /\ last.t.solo /\ last.t.applied)
    => Range(last.t.merged) \subseteq localStore

\* C3: a pass calls saveCountrySelection exactly for the merged codes that the
\* fetched remote set lacks; with no failed push and nothing interleaved the
\* remote rows afterwards are the union.
C3_PushesLocalOnly ==
    (PassDone /\ last.t.solo)
    => /\ last.t.pushed = Range(last.t.merged) \ Range(last.t.R)
       /\ (last.t.fetchSelOk /\ ~last.t.failed)
          => RowCodes(remoteSel) = Range(last.t.L) \cup Range(last.t.R)

\* a reconciliation pass takes a step; last'.t is its record after the step
PassStep == last'.ev \in {"syncStep", "syncDone"}

\* C4: a pass whose fetch of the remote selections failed is aborted: none of
\* its steps changes the in-memory selection, the local selection store, the
\* remote rows or the remote homeland, and it calls neither
\* saveCountrySelection nor setHomeland.
C4_FetchFailureAborts ==
    [][(PassStep /\ ~last'.t.fetchSelOk)
       => /\ UNCHANGED <<selectedCountries, localStore, remoteSel,
                         remoteHomeland>>
          /\ last'.t.pushed = {}
          /\ ~last'.t.homePushed]_vars

\* C6: with no handler in flight the in-memory homeland is not a visited
\* country in memory, in the local store or (signed in) in the remote rows.
C6_HomelandNotVisited ==
    (Quiescent /\ isInitialized /\ homelandCountry # None)
    => homelandCountry \notin
          Range(selectedCountries) \cup localStore
          \cup (IF authValid THEN RowCodes(remoteSel) ELSE {})

SelectsHomeland ==
    /\ last'.ev \in {"select", "selectLocal", "selectRejected"}
    /\ last'.code = homelandCountry

\* C7: selecting the homeland is rejected before any write: the handler
\* leaves the in-memory selection, the local store and the remote rows as they
\* are and issues no PocketBase call.
C7_HomelandSelectRejected ==
    [][SelectsHomeland
       => /\ last'.ev = "selectRejected"
          /\ UNCHANGED <<selectedCountries, localStore, remoteSel,
                         remoteHomeland, localHomeland, homelandCountry>>
          /\ \A i \in Slots : tasks'[i].kind = tasks[i].kind]_vars

C7_Witness ==
    /\ last.ev = "selectRejected" /\ last.code = homelandCountry
    /\ selectedCountries # <<>>

\* a step of handleHomelandSelect
HomelandStep == last'.ev \in {"homeland", "homelandStep", "homelandDone"}

C9_LocalKeptOnRemoteFailure ==
    (last.ev = "selectDone" /\ ~last.ok /\ last.t.solo)
    => /\ last.code \in localStore
       /\ last.code \in Range(selectedCountries)

C9_Witness ==
    /\ last.ev = "selectDone" /\ ~last.ok /\ last.t.solo /\ last.t.auth
    /\ last.code \in localStore
    /\ remoteSel[last.code] = 0

\* the step in which a pass passes the homeland block and applies its result
ApplyStep ==
    /\ PassStep /\ last'.t.applied
    /\ ~tasks[last'.t.slot].applied

C11_SignOutKeepsLocalStores ==
    [][last'.ev = "signOut" => UNCHANGED <<localStore, localHomeland>>]_vars

\* C13: a saveCountrySelection that throws in the push loop does not end the
\* pass: a pass that reached the loop has called saveCountrySelection for
\* every local country the fetched remote list lacks, whichever calls failed.
C13_PushFailureContinues ==
    (PassDone /\ last.t.applied)
    => last.t.pushed = Range(last.t.L) \ Range(last.t.R)

C13_Witness ==
    /\ PassDone /\ last.t.applied /\ last.t.failed
    /\ last.t.pushed = Codes
    /\ CodeOrder[1] \notin RowCodes(remoteSel)
    /\ CodeOrder[2] \in RowCodes(remoteSel)

\* passes suspended on a PocketBase call
InFlight == {i \in Slots : tasks[i].kind = "sync"}

\* C14: at most one reconciliation pass is in flight at any time.
C14_SinglePassInFlight == Cardinality(InFlight) <= 1

\* C12: a code that is in the local list and in the fetched remote list comes
\* out of the merge once, with the remote record's name.
C12_RemoteNameWins ==
    merge.pc = "done"
    => \A c \in Codes :
          \A j \in Index(merge.R, c) :
             /\ Cardinality(Index(merge.map, c)) = 1
             /\ \A i \in Index(merge.map, c) : merge.map[i].name = merge.R[j].name

C12_Witness ==
    /\ merge.pc = "done"
    /\ \E i \in 1..Len(merge.L), j \in 1..Len(merge.R) :
          /\ merge.L[i].alpha3 = merge.R[j].alpha3
          /\ merge.L[i].name # merge.R[j].name
          /\ \E k \in 1..Len(merge.map) : merge.map[k] = merge.R[j]

\* a service call returns or throws in this step
Finishes(op) == svc'.done # svc.done /\ svc'.done.op = op

\* the call entered in this step
NewCall ==
    IF svc'.done.n = svc'.nCalls THEN svc'.done
    ELSE LET k == CHOOSE j \in CallSlots : svc'.calls[j].n = svc'.nCalls
         IN svc'.calls[k]

\* a method of ops is called without a valid session
CalledSignedOut(ops) ==
    /\ svc'.nCalls > svc.nCalls /\ ~authValid
    /\ NewCall.op \in ops

\* C15: no request adds a country_selections row for a code that already has
\* one, so the remote rows hold at most one record per (profile, code).
C15_NoDuplicateRows ==
    [][\A c \in Codes : remoteSel'[c] > remoteSel[c] => remoteSel[c] = 0]_vars

\* C16: when removeCountrySelection returns without an error, no row of its
\* code is left.
C16_RemoveLeavesNoRow ==
    [][(Finishes("remove") /\ svc'.done.res = "ok" /\ svc'.done.solo)
       => remoteSel'[svc'.done.code] = 0]_vars

\* C17: when clearAllCountrySelections fails, every record other than the one
\* whose delete failed has been deleted: no record is left unattempted.
C17_ClearAllSkipsOnlyFailed ==
    [][(Finishes("clearAll") /\ svc'.done.res = "threw")
       => svc'.done.left = <<>>]_vars

\* calls that have the profile in hand
HasProfile ==
    {k \in CallSlots : /\ svc.calls[k].op # "getShared"
                       /\ svc.calls[k].pc \notin {"-", "auth", "profile",
                                                   "profileCreate"}}

\* C18: the user never has more than one profile: a create is admitted only
\* when there is none, the profile it makes has shared = false, and a call
\* that has got its profile (found or created) leaves exactly one.
C18_OneProfilePerUser ==
    [][/\ svc'.profiles <= 1
       /\ svc'.profiles # svc.profiles
          => svc.profiles = 0 /\ svc'.profiles = 1 /\ ~svc'.shared
       /\ (HasProfile # {} \/ svc.done.made) => svc'.profiles = 1]_vars

C18_Witness ==
    /\ svc.pc = "run" /\ svc.profiles = 1
    /\ svc.done.pc = "profileCreate" /\ svc.done.res # "-"
    /\ \E k \in CallSlots : svc.calls[k].made /\ svc.calls[k].n < svc.done.n

\* C19: a write method called without a valid session throws at once: it
\* sends no request and the remote rows and the profile are unchanged.
C19_WritesNeedSession ==
    [][CalledSignedOut(WriteOps)
       => /\ NewCall.res = "threw" /\ NewCall.reqs = 0
          /\ UNCHANGED <<remoteSel, remoteHomeland>>
          /\ svc'.profiles = svc.profiles /\ svc'.shared = svc.shared]_vars

C19_Witness ==
    /\ svc.pc = "run" /\ ~authValid
    /\ svc.done.op = "toggle" /\ svc.done.res = "threw" /\ svc.done.reqs = 0
    /\ svc.shared /\ remoteSel # NoRows

\* C20: a read method called without a valid session fails with an error.
C20_ReadsNeedSession ==
    [][CalledSignedOut(ReadOps) => NewCall.res = "threw"]_vars

\* C21: a toggleMapSharing call that ran alone sets shared to the negation of
\* its value before the call and returns the new value; a second one right
\* after it restores the flag the first one found.
C21_ToggleFlips ==
    [][(Finishes("toggle") /\ svc'.done.res = "value" /\ svc'.done.solo)
       => /\ svc'.shared = ~svc.shared
          /\ svc'.done.value = <<svc'.shared>>
          /\ (svc.done.op = "toggle" /\ svc.done.res = "value" /\ svc.done.solo)
             => svc'.shared = svc.done.seen]_vars

C21_Witness ==
    /\ svc.pc = "run"
    /\ svc.done.op = "toggle" /\ svc.done.res = "value" /\ svc.done.solo
    /\ svc.done.n = 2 /\ svc.done.seen /\ ~svc.shared /\ svc.link # None

\* C22: to a visitor who is not the owner getSharedProfile returns null, with
\* nothing else to tell the cases apart, when the id names no profile and when
\* the profile is not shared; it returns the profile and the rows only if the
\* profile was shared when it was read.
C22_PrivateLooksMissing ==
    [][(Finishes("getShared") /\ svc'.done.viewer = "other")
       => LET d == svc'.done IN
          /\ d.res = "value" => /\ d.seen /\ d.id = ProfileId /\ svc.profiles > 0
                                /\ (d.solo => d.value = GetUserCountrySelections(remoteSel))
          /\ (d.pc = "getOne" /\ (d.id # ProfileId \/ svc.profiles = 0 \/ ~svc.shared))
             => d.res = "empty" /\ d.value = <<>> /\ d.reqs = 1 /\ ~d.seen]_vars

C22_Witness ==
    /\ svc.pc = "run"
    /\ svc.done.op = "getShared" /\ svc.done.viewer = "other"
    /\ svc.done.id = ProfileId /\ svc.profiles = 1 /\ ~svc.shared
    /\ svc.done.res = "empty" /\ ~svc.done.lost /\ remoteSel # NoRows

\* C23: the id in the link copied when sharing was switched on resolves,
\* through getSharedProfile, to the user's profile while it is shared.
C23_ShareLinkResolves ==
    [][(/\ Finishes("getShared") /\ svc.link # None
        /\ svc'.done.id = svc.link /\ svc'.done.solo /\ ~svc'.done.lost
        /\ svc.shared /\ svc.profiles = 1)
       => svc'.done.res = "value"]_vars

\* the PocketBase call of the handler in slot i is answered in this step
RemoteAnswered(i) ==
    /\ tasks[i].kind \notin {"idle", "sync"}
    /\ tasks'[i].kind = "idle" \/ tasks'[i].pc # tasks[i].pc

\* the local write that the handler in slot i mirrors is in the local stores
LocalWritten(t, store, home) ==
    CASE t.kind = "select" -> t.code \in store
      [] t.kind = "deselect" -> t.code \notin store
      [] t.kind = "clear" -> store = {}
      [] t.kind = "homeland" /\ t.pc = "setHomeland" -> home = t.code
      [] t.kind = "homeland" /\ t.pc = "evict" -> t.code \notin store
      [] t.kind = "homelandClear" -> home = None
      [] OTHER -> FALSE

\* C24: in every mutation handler the local write of a change is complete
\* before the PocketBase call that mirrors the change: when the call of a
\* handler that ran alone is answered, the local stores already hold the
\* change, and the remote stores were untouched by the step that wrote it.
C24_LocalBeforeRemote ==
    [][/\ \A i \in Slots : (RemoteAnswered(i) /\ tasks[i].solo)
                           => LocalWritten(tasks[i], localStore, localHomeland)
       /\ (last'.ev \in {"select", "deselect", "clear", "homeland", "homelandClear"})
          => /\ UNCHANGED <<remoteSel, remoteHomeland>>
             /\ last'.t.solo
             /\ LocalWritten(last'.t, localStore', localHomeland')]_vars

C24_Witness ==
    /\ last.ev = "homelandDone" /\ last.ok /\ last.t.pc = "evict"
    /\ last.t.solo /\ last.t.wasSel /\ ~last.t.failed
    /\ localHomeland = last.code /\ remoteHomeland = last.code
    /\ last.code \notin localStore /\ remoteSel[last.code] = 0

\* a store call of op settles in this step with res
DbCall(op) == db'.n > db.n /\ db'.last.op = op

\* C25: the local selection store is a set keyed by code: the store never
\* holds two records of one code and its keys are the codes added and not
\* since removed or cleared; an add leaves exactly one record of its code,
\* and a second add of the same code leaves the key set as the first left it;
\* a remove of an absent code succeeds and changes nothing; has(code) tells
\* whether the code is among the keys; clear leaves the store empty.
C25_LocalStoreIsSet ==
    [][LET ok == db'.last.res # "threw"
           id == db'.last.id
           ofId(recs) == {i \in 1..Len(recs) : recs[i].id = id}
       IN
       /\ Cardinality(Keys(db'.recs)) = Len(db'.recs)
       /\ Keys(db'.recs) = db'.keys
       /\ ~ok => db'.recs = db.recs
       /\ (DbCall("add") /\ ok)
          => /\ Cardinality(ofId(db'.recs)) = 1
             /\ Keys(db'.recs) = Keys(db.recs) \cup {id}
             /\ (db.last.op = "add" /\ db.last.id = id /\ db.last.res = "ok")
                => Keys(db'.recs) = Keys(db.recs) /\ Len(db'.recs) = Len(db.recs)
       /\ (DbCall("remove") /\ db.open)
          => /\ id \notin Keys(db.recs) => (ok => db'.recs = db.recs)
             /\ ok => Keys(db'.recs) = Keys(db.recs) \ {id}
       /\ (DbCall("has") /\ ok)
          => db'.last.res = (IF id \in db.keys THEN "true" ELSE "false")
       /\ (DbCall("clear") /\ ok) => db'.recs = <<>>]_vars

C25_Witness ==
    /\ db.pc = "run" /\ db.n = 3
    /\ db.last.op = "add" /\ db.last.res = "ok"
    /\ db.last.before.op = "add" /\ db.last.before.res = "ok"
    /\ db.last.before.id = db.last.id
    /\ Len(db.recs) = 2
    /\ \E i \in 1..Len(db.recs) : db.recs[i] = [id |-> "DEU", name |-> "Deutschland"]

\* C26: a reconciliation pass never removes a selection: no step of a pass
\* takes a key out of the local store or a code out of the remote rows, and
\* when the pass returns every code that was in the local store when it began
\* and is still there is in the in-memory selection.
C26_PassNeverRemoves ==
    [][PassStep
       => /\ localStore \subseteq localStore'
          /\ RowCodes(remoteSel) \subseteq RowCodes(remoteSel')
          /\ last'.ev = "syncDone"
             => (last'.t.atStart \cap localStore') \subseteq Range(selectedCountries')]_vars

\* codes that the pass in slot i read from the local store and that have been
\* taken out of the store since
Stale(i) == {c \in Range(tasks[i].L) : c \notin localStore}

\* C27: a pass does not act on a local snapshot that a deselect has outdated:
\* no step of the pass adds a remote row for a code that left the local store
\* after the pass read it, or puts such a code back into the in-memory
\* selection.
C27_NoStaleSnapshot ==
    [][\A i \in Slots :
          (tasks[i].kind = "sync" /\ PassStep /\ last'.t.slot = i)
          => \A c \in Stale(i) :
                /\ remoteSel'[c] <= remoteSel[c]
                /\ c \in Range(selectedCountries') => c \in Range(selectedCountries)]_vars

\* C28: a homeland that an earlier signed-out session stored survives the
\* start of a session in which nobody signs in: when initialization
\* completes it is still in the settings store and is the in-memory homeland.
C28_HomelandSurvivesSignedOut ==
    [][(last'.ev = "load" /\ ~authValid /\ nEvents = 0 /\ localHomeland # None)
       => localHomeland' = localHomeland /\ homelandCountry' = localHomeland]_vars

\* C29: while no handler and no pass is in flight, the codes of the in-memory
\* selection are the keys of the local selection store.
C29_MemoryIsLocalStore ==
    (isInitialized /\ Quiescent) => Range(selectedCountries) = localStore

\* a pass is entered in this step
PassStarts == \E i \in Slots : tasks'[i].kind = "sync" /\ tasks[i].kind # "sync"

\* C30: a pass starts only with a session and after initialization: it is
\* started by the sign-in of an initialized app or by initialization
\* completing while signed in, and no pass is in flight before initialization
\* has completed, so none reads the local store before.
C30_PassStartConditions ==
    [][/\ PassStarts
          => /\ authValid' /\ isInitialized'
             /\ \/ ~authValid /\ isInitialized /\ last'.ev = "signIn"
                \/ authValid /\ ~isInitialized /\ last'.ev = "load"
       /\ InFlight # {} => isInitialized
       /\ (PassStep /\ last'.t.L # <<>>) => isInitialized]_vars

C30_Witness ==
    /\ last.ev = "load" /\ authValid /\ isInitialized
    /\ InFlight # {} /\ localStore # {}
    /\ \A i \in InFlight : tasks[i].pc = "fetchSel" /\ tasks[i].atStart = localStore

\* C31: every pass that has started eventually returns, whatever pushes and
\* homeland calls fail, provided each of its calls resolves or throws.
C31_PassTerminates ==
    \A i \in Slots : (tasks[i].kind = "sync") ~> (tasks[i].kind # "sync")

C31_Witness ==
    /\ last.ev = "syncDone" /\ last.t.failed /\ last.t.applied
    /\ last.t.pushed # {} /\ last.t.homePushed
    /\ Quiescent

\* a mutation handler is entered in this step
HandlerEntered ==
    last'.ev \in {"select", "selectLocal", "selectRejected", "selectFailed",
                  "deselect", "deselectLocal", "deselectFailed", "clear",
                  "clearLocal", "clearFailed", "homeland", "homelandClear",
                  "homelandClearLocal"}
    \/ (last'.ev = "homelandDone" /\ last'.t.slot = 0)

\* C32: without a session the mutation handlers write only to the local
\* stores and the in-memory state: a handler entered signed out makes no
\* PocketBase call and leaves the remote selections and the remote homeland
\* as they were.
C32_SignedOutIsLocalOnly ==
    [][(HandlerEntered /\ ~authValid)
       => /\ UNCHANGED <<remoteSel, remoteHomeland>>
          /\ \A i \in Slots : tasks'[i].kind = tasks[i].kind
          /\ last'.t.slot = 0]_vars

C32_Witness ==
    /\ ~authValid /\ isInitialized /\ Quiescent /\ nEvents = 3
    /\ last.ev = "homelandDone" /\ last.t.slot = 0 /\ last.t.wasSel
    /\ localHomeland = last.code /\ remoteHomeland # last.code
    /\ last.code \notin localStore

\* C33: a deselect made signed out, or whose remote delete failed, takes the
\* code out of the local store only and leaves its remote row; when the next
\* pass has fetched that row and returns, the code is back in the in-memory
\* selection.
C33_RemoteRowResurrects ==
    (PassDone /\ last.t.solo /\ last.t.fetchSelOk /\ last.t.fetchHomeOk
             /\ last.t.undone \in Range(last.t.R))
    => last.t.undone \in Range(selectedCountries)

\* C34: login is all or nothing: when a login that ran alone reports failure
\* the session is not authenticated afterwards, and when it reports success
\* the session is authenticated and the user has a profile.
C34_LoginAllOrNothing ==
    [][(Finishes("login") /\ svc'.done.solo)
       => /\ svc'.done.res = "threw" => ~authValid'
          /\ svc'.done.res = "value" => authValid' /\ svc'.profiles = 1]_vars

\* the call in slot k gets the answer to its create on user_profiles
CreateAnswered(k) ==
    /\ svc.calls[k].pc = "profileCreate"
    /\ svc'.calls[k].pc # "profileCreate"

\* C35: when ensureUserProfile found no profile and its create is rejected
\* because the user has a profile by then, the call does not fall back to that
\* profile: the method ends there with its error, having sent nothing after
\* the create, and the remote rows, the remote homeland and the profile are as
\* they were.
C35_RejectedCreateFails ==
    [][\A k \in CallSlots :
          (CreateAnswered(k) /\ svc.profiles > 0)
          => /\ svc'.done.n = svc.calls[k].n
             /\ svc'.done.res = Fails(svc.calls[k].op)
             /\ svc'.done.reqs = IF svc.calls[k].op = "login" THEN 3 ELSE 2
             /\ svc'.profiles = svc.profiles /\ svc'.shared = svc.shared
             /\ UNCHANGED <<remoteSel, remoteHomeland>>]_vars

C35_Witness ==
    /\ svc.pc = "run" /\ authValid
    /\ svc.done.op \in {"save", "remove", "clearAll", "setHomeland"}
    /\ svc.done.pc = "profileCreate" /\ svc.done.res = "threw"
    /\ ~svc.done.lost /\ svc.done.reqs = 2
    /\ svc.profiles = 1 /\ remoteSel = NoRows /\ remoteHomeland = None

\* C36: when the local store write of the select, deselect or clear-all
\* handler fails, the handler stops there: the in-memory selection of the
\* route is not updated, no PocketBase call is made and the stores are as
\* they were.
C36_LocalFailureStops ==
    [][last'.t.localErr
       => /\ last'.ev \in {"selectFailed", "deselectFailed", "clearFailed"}
          /\ UNCHANGED <<selectedCountries, localStore, remoteSel, remoteHomeland>>
          /\ \A i \in Slots : tasks'[i].kind = tasks[i].kind
          /\ last'.t.slot = 0]_vars

C36_Witness ==
    /\ last.ev = "deselectFailed" /\ last.t.localErr /\ authValid
    /\ last.code \in localStore /\ last.code \in Range(selectedCountries)
    /\ last.code \notin uiSel /\ remoteSel[last.code] > 0 /\ Quiescent

====
